---- MODULE Spec2Model ----
(***************************************************************************)
(* The host database of src/siatest/testnode.go (package hostdb, lines     *)
(* 264-403): a weighted selection tree of host entries, an index of the    *)
(* active hosts, an index of the inactive hosts and one reader-writer lock.*)
(* The tree node type (createNode, insert, remove, entryAtWeight) and the  *)
(* lock helpers (lock, unlock, rLock, rUnlock) are not in the source file; *)
(* they are modelled from spec.md sections 4.1 and 5.                      *)
(***************************************************************************)
EXTENDS Integers, Sequences, FiniteSets, TLC

\* ---------------------------------------------------------------- bounds
\* Size of the node heap: the number of hostNode objects alive at once.
MaxNodes == 3
\* Entry weights range over 1..MaxWeight.
MaxWeight == 2

Threads == {"t1", "t2"}
Hosts == {"X", "Y", "Z"}

\* The nil pointer.
Nil == 0
NodeIds == 1..MaxNodes
Weights == 1..MaxWeight

\* components.HostEntry: an identifier and a positive weight.
HostEntry == [id : Hosts, weight : Weights]
NoEntry == [id |-> "", weight |-> 0]
Entry(h, w) == [id |-> h, weight |-> w]

\* consensus.Block as Update sees it: whether findHostAnnouncements succeeds
\* on it, and the announcements it then returns.
Block(ok, anns) == [ok |-> ok, anns |-> anns]
BadBlock == Block(FALSE, <<>>)
P0 == Block(TRUE, <<>>)
P1 == Block(TRUE, <<Entry("X", 1)>>)
P2 == Block(TRUE, <<Entry("Y", 1)>>)
P3 == Block(TRUE, <<Entry("Y", 1), Entry("Z", 1)>>)

\* The block lists handed to Update as rewoundBlocks and as appliedBlocks.
RewoundLists == {<<>>, <<P2>>, <<BadBlock>>, <<P0, BadBlock>>}
AppliedLists == {<<>>, <<P1>>, <<P2>>, <<P3>>, <<P1, BadBlock>>}

\* findHostAnnouncements(initialStateHeight, b): the entries, or an error.
findHostAnnouncements(b) == [err |-> IF b.ok THEN "ok" ELSE "ScanError", entries |-> b.anns]

VARIABLES
    hostTree,       \* hdb.hostTree: the root node, or Nil
    nodes,          \* the heap of hostNode objects, by address
    activeHosts,    \* hdb.activeHosts: id -> node address
    inactiveHosts,  \* hdb.inactiveHosts: id -> entry
    dbLock,         \* hdb.dbLock: writer held, number of readers
    th              \* each thread's position in the call it is running

dbVars == <<hostTree, nodes, activeHosts, inactiveHosts>>
vars == <<hostTree, nodes, activeHosts, inactiveHosts, dbLock, th>>

\* ------------------------------------------------------------ hostNode
FreeNode == [parent |-> Nil, left |-> Nil, right |-> Nil, entry |-> NoEntry, weight |-> 0]

\* createNode(parent, entry): a leaf whose subtree weight is its own weight.
createNode(parent, entry) ==
    [parent |-> parent, left |-> Nil, right |-> Nil, entry |-> entry, weight |-> entry.weight]

\* subtreeWeight of a child slot, 0 when the child is absent.
subtreeWeight(ns, n) == IF n = Nil THEN 0 ELSE ns[n].weight

\* n and every ancestor of n, following the parent back-references.
RECURSIVE PathToRoot(_, _)
PathToRoot(ns, n) == IF n = Nil THEN {} ELSE {n} \cup PathToRoot(ns, ns[n].parent)

\* The nodes reachable from n through the child references.
RECURSIVE TreeNodes(_, _)
TreeNodes(ns, n) ==
    IF n = Nil THEN {} ELSE {n} \cup TreeNodes(ns, ns[n].left) \cup TreeNodes(ns, ns[n].right)

\* The placement policy of insert: from n descend into the lighter side
\* (ties go left) until a missing child slot is found.
RECURSIVE InsertSlot(_, _)
InsertSlot(ns, n) ==
    IF subtreeWeight(ns, ns[n].left) <= subtreeWeight(ns, ns[n].right)
    THEN IF ns[n].left = Nil THEN [node |-> n, side |-> "left"] ELSE InsertSlot(ns, ns[n].left)
    ELSE IF ns[n].right = Nil THEN [node |-> n, side |-> "right"] ELSE InsertSlot(ns, ns[n].right)

\* hostNode.insert(entry), the new leaf being allocated at address new:
\* attach the leaf and add its weight to every ancestor up to the root.
insert(ns, root, entry, new) ==
    LET slot == InsertSlot(ns, root)
        path == PathToRoot(ns, slot.node)
    IN [k \in DOMAIN ns |->
          IF k = new THEN createNode(slot.node, entry)
          ELSE IF k \in path
               THEN [ns[k] EXCEPT
                       !.weight = @ + entry.weight,
                       !.left = IF k = slot.node /\ slot.side = "left" THEN new ELSE @,
                       !.right = IF k = slot.node /\ slot.side = "right" THEN new ELSE @]
               ELSE ns[k]]

\* The leaf descendant whose entry replaces a removed inner node's entry.
RECURSIVE Rightmost(_, _)
Rightmost(ns, n) ==
    IF ns[n].right # Nil THEN Rightmost(ns, ns[n].right)
    ELSE IF ns[n].left # Nil THEN Rightmost(ns, ns[n].left)
    ELSE n
RECURSIVE Leftmost(_, _)
Leftmost(ns, n) ==
    IF ns[n].left # Nil THEN Leftmost(ns, ns[n].left)
    ELSE IF ns[n].right # Nil THEN Leftmost(ns, ns[n].right)
    ELSE n
LeafDescendant(ns, n) ==
    IF ns[n].right # Nil THEN Rightmost(ns, ns[n].right) ELSE Leftmost(ns, ns[n].left)

\* remove of a node without children: detach it from its parent (or null the
\* root) and take its own weight off every ancestor.  The node's own parent
\* back-reference is left as it is.
removeLeaf(ns, root, n) ==
    LET p == ns[n].parent
        path == PathToRoot(ns, p)
        w == ns[n].entry.weight
    IN IF p = Nil
       THEN [nodes |-> ns, root |-> Nil]
       ELSE [nodes |-> [k \in DOMAIN ns |->
                          IF k \in path
                          THEN [ns[k] EXCEPT
                                  !.weight = @ - w,
                                  !.left = IF k = p /\ @ = n THEN Nil ELSE @,
                                  !.right = IF k = p /\ @ = n THEN Nil ELSE @]
                          ELSE ns[k]],
             root |-> root]

\* hostNode.remove(): a node with children takes over the entry of a leaf
\* descendant, and that leaf is removed in its place.  The node and its
\* ancestors lose the removed entry's weight, the nodes between the node and
\* the leaf lose the moved entry's weight.
remove(ns, root, n) ==
    IF ns[n].left = Nil /\ ns[n].right = Nil
    THEN removeLeaf(ns, root, n)
    ELSE LET leaf == LeafDescendant(ns, n)
             moved == ns[leaf].entry
             delta == moved.weight - ns[n].entry.weight
             path == PathToRoot(ns, n)
             ns1 == [k \in DOMAIN ns |->
                       IF k \in path
                       THEN [ns[k] EXCEPT !.weight = @ + delta,
                                          !.entry = IF k = n THEN moved ELSE @]
                       ELSE ns[k]]
         IN removeLeaf(ns1, root, leaf)

\* hostNode.entryAtWeight(w): the left / own / right interval search.
RECURSIVE entryAtWeight(_, _, _)
entryAtWeight(ns, n, w) ==
    IF n = Nil THEN [err |-> "panic", entry |-> NoEntry]
    ELSE LET lw == subtreeWeight(ns, ns[n].left)
             own == ns[n].entry.weight
         IN IF w < lw THEN entryAtWeight(ns, ns[n].left, w)
            ELSE IF w < lw + own THEN [err |-> "ok", entry |-> ns[n].entry]
            ELSE entryAtWeight(ns, ns[n].right, w - lw - own)

\* ------------------------------------------------------------- the heap
\* A node stays allocated while the tree or the active index refers to it,
\* directly or through a parent back-reference; the rest is collected.
Live(ns, root, active) ==
    TreeNodes(ns, root) \cup UNION {PathToRoot(ns, active[h]) : h \in DOMAIN active}
Collect(ns, root, active) ==
    [k \in DOMAIN ns |-> IF k \in Live(ns, root, active) THEN ns[k] ELSE FreeNode]
FreeIds(ns) == {k \in DOMAIN ns : ns[k] = FreeNode}
NewNode(ns) == CHOOSE k \in FreeIds(ns) : \A j \in FreeIds(ns) : k <= j

\* Go maps: insertion and delete.
Put(f, k, v) == [x \in DOMAIN f \cup {k} |-> IF x = k THEN v ELSE f[x]]
Del(f, k) == [x \in DOMAIN f \ {k} |-> f[x]]
EmptyMap == [x \in {} |-> Nil]

\* -------------------------------------------------------------- the lock
\* sync.RWMutex behind hdb.lock / hdb.unlock / hdb.rLock / hdb.rUnlock.
CanLock(l) == ~l.w /\ l.r = 0
CanRLock(l) == ~l.w
lock(l) == [l EXCEPT !.w = TRUE]
unlock(l) == [l EXCEPT !.w = FALSE]
rLock(l) == [l EXCEPT !.r = @ + 1]
rUnlock(l) == [l EXCEPT !.r = @ - 1]

\* ----------------------------------------------------- HostDB operations
DB == [hostTree |-> hostTree, nodes |-> nodes,
       activeHosts |-> activeHosts, inactiveHosts |-> inactiveHosts]

\* New(): no tree, two empty maps.
New ==
    [hostTree |-> Nil, nodes |-> [k \in NodeIds |-> FreeNode],
     activeHosts |-> EmptyMap, inactiveHosts |-> EmptyMap]

\* A slip in Insert's check: the inactive index is consulted.
InsertExistsInactive(d, entry) == entry.id \in DOMAIN d.inactiveHosts

\* Insert, line 298-299: is the id already active?
InsertExists(d, entry) == entry.id \in DOMAIN d.activeHosts

\* A slip in Insert: the else of line 305 is lost, every new node becomes
\* the root.
InsertNodeNewRoot(d, entry) ==
    LET new == NewNode(d.nodes)
    IN [d EXCEPT !.hostTree = new,
                 !.nodes = [@ EXCEPT ![new] = createNode(Nil, entry)],
                 !.activeHosts = Put(@, entry.id, new)]

\* Insert, lines 303-309: the first node becomes the root, a later one is
\* placed by the tree; the active index records the new node.
InsertNode(d, entry) ==
    LET new == NewNode(d.nodes)
    IN IF d.hostTree = Nil
       THEN [d EXCEPT !.hostTree = new,
                      !.nodes = [@ EXCEPT ![new] = createNode(Nil, entry)],
                      !.activeHosts = Put(@, entry.id, new)]
       ELSE [d EXCEPT !.nodes = insert(@, d.hostTree, entry, new),
                      !.activeHosts = Put(@, entry.id, new)]

\* The body of Insert between lock and unlock.
InsertEff(d, entry) ==
    IF InsertExists(d, entry)
    THEN [db |-> d, err |-> "AlreadyExists"]
    ELSE [db |-> InsertNode(d, entry), err |-> "ok"]

\* A slip in Remove: an id found in neither index is not reported.
RemoveInactiveNil(d, id) ==
    [db |-> [d EXCEPT !.inactiveHosts = Del(@, id)], err |-> "ok"]

\* Remove, lines 323-329: an id that is not active.
RemoveInactive(d, id) ==
    IF id \in DOMAIN d.inactiveHosts
    THEN [db |-> [d EXCEPT !.inactiveHosts = Del(@, id)], err |-> "ok"]
    ELSE [db |-> d, err |-> "NotFound"]

\* A slip in Remove: the id stays in the active index.
RemoveActiveKeep(d, id) ==
    LET r == remove(d.nodes, d.hostTree, d.activeHosts[id])
    IN [d EXCEPT !.hostTree = r.root,
                 !.nodes = Collect(r.nodes, r.root, d.activeHosts)]

\* A slip in Remove: the removed host is kept in the inactive index.
RemoveActiveToInactive(d, id) ==
    LET node == d.activeHosts[id]
        active == Del(d.activeHosts, id)
        r == remove(d.nodes, d.hostTree, node)
    IN [d EXCEPT !.hostTree = r.root,
                 !.nodes = Collect(r.nodes, r.root, active),
                 !.activeHosts = active,
                 !.inactiveHosts = Put(@, id, d.nodes[node].entry)]

\* Remove, lines 333-334: drop the id from the active index, then remove
\* the node the index gave from the tree.
RemoveActive(d, id) ==
    LET node == d.activeHosts[id]
        active == Del(d.activeHosts, id)
        r == remove(d.nodes, d.hostTree, node)
    IN [d EXCEPT !.hostTree = r.root,
                 !.nodes = Collect(r.nodes, r.root, active),
                 !.activeHosts = active]

\* The body of Remove between lock and unlock.
RemoveEff(d, id) ==
    IF id \in DOMAIN d.activeHosts
    THEN [db |-> RemoveActive(d, id), err |-> "ok"]
    ELSE RemoveInactive(d, id)

\* A slip in RandomHost: the root is tested instead of the active index.
RandomHostEmptyTree(d) == d.hostTree = Nil

\* RandomHost, line 390: no active host.
RandomHostEmpty(d) == Cardinality(DOMAIN d.activeHosts) = 0

\* RandomHost, lines 397-402: the results a draw can give.  A nil root is a
\* nil dereference and a weight below 1 makes rand.Int panic.
RandomHostDraws(d) ==
    IF d.hostTree = Nil \/ subtreeWeight(d.nodes, d.hostTree) <= 0
    THEN {[err |-> "panic", entry |-> NoEntry]}
    ELSE {entryAtWeight(d.nodes, d.hostTree, w) :
             w \in 0..(subtreeWeight(d.nodes, d.hostTree) - 1)}

\* The results of RandomHost.
RandomHostEff(d) ==
    IF RandomHostEmpty(d)
    THEN {[err |-> "NoHostsAvailable", entry |-> NoEntry]}
    ELSE RandomHostDraws(d)

\* --------------------------------------------------------------- threads
\* A thread is idle or inside one call.  entry / id are the parameters of
\* Insert / Remove, rew / app the blocks Update has still to visit, ents the
\* announcements of the current block still to visit, nested tells an
\* Insert or Remove that Update called it, err is the last error value
\* (the value returned once the thread is idle again).
IdleThread ==
    [pc |-> "idle", entry |-> NoEntry, id |-> "", nested |-> FALSE,
     rew |-> <<>>, app |-> <<>>, ents |-> <<>>, err |-> "none"]

Return(err) == [IdleThread EXCEPT !.err = err]

SetDB(d) ==
    /\ hostTree' = d.hostTree
    /\ nodes' = d.nodes
    /\ activeHosts' = d.activeHosts
    /\ inactiveHosts' = d.inactiveHosts

RECURSIVE SumAnns(_)
SumAnns(bs) == IF bs = <<>> THEN 0 ELSE Len(Head(bs).anns) + SumAnns(Tail(bs))

\* The nodes the call a thread is running may still allocate.
Pending(t) ==
    LET r == th[t]
    IN (IF r.pc \in {"Insert_lock", "Insert"} THEN 1 ELSE 0)
       + SumAnns(r.app)
       + (IF r.pc = "Update_insert_loop"
             \/ (r.nested /\ r.pc \in {"Insert_lock", "Insert", "Update_relock"})
          THEN Len(r.ents) ELSE 0)
RECURSIVE PendingAll(_)
PendingAll(T) ==
    IF T = {} THEN 0 ELSE LET t == CHOOSE x \in T : TRUE IN Pending(t) + PendingAll(T \ {t})
\* The heap has room for k more nodes beside those already promised.
Room(k) == Cardinality(FreeIds(nodes)) - PendingAll(Threads) >= k

Init ==
    /\ hostTree = New.hostTree
    /\ nodes = New.nodes
    /\ activeHosts = New.activeHosts
    /\ inactiveHosts = New.inactiveHosts
    /\ dbLock = [w |-> FALSE, r |-> 0]
    /\ th = [t \in Threads |-> IdleThread]

\* ---- calls
InsertCall(t) ==
    /\ th[t].pc = "idle"
    /\ Room(1)
    /\ \E e \in HostEntry :
         th' = [th EXCEPT ![t] = [IdleThread EXCEPT !.pc = "Insert_lock", !.entry = e]]
    /\ UNCHANGED <<dbVars, dbLock>>

RemoveCall(t) ==
    /\ th[t].pc = "idle"
    /\ \E h \in Hosts :
         th' = [th EXCEPT ![t] = [IdleThread EXCEPT !.pc = "Remove_lock", !.id = h]]
    /\ UNCHANGED <<dbVars, dbLock>>

RandomHostCall(t) ==
    /\ th[t].pc = "idle"
    /\ th' = [th EXCEPT ![t] = [IdleThread EXCEPT !.pc = "RandomHost_rLock"]]
    /\ UNCHANGED <<dbVars, dbLock>>

UpdateCall(t) ==
    /\ th[t].pc = "idle"
    /\ \E rew \in RewoundLists, app \in AppliedLists :
         /\ Room(SumAnns(app))
         /\ th' = [th EXCEPT ![t] =
                     [IdleThread EXCEPT !.pc = "Update_lock", !.rew = rew, !.app = app]]
    /\ UNCHANGED <<dbVars, dbLock>>

\* A slip in Update: the error return after the lock of line 375 leaves the
\* lock held.
LockReturnHeld(t) ==
    /\ th[t].pc \in {"Insert_lock", "Remove_lock", "Update_lock", "Update_relock"}
    /\ CanLock(dbLock)
    /\ dbLock' = lock(dbLock)
    /\ th' = [th EXCEPT ![t] =
                IF @.pc = "Update_relock" /\ @.err # "ok" THEN Return(@.err)
                ELSE [@ EXCEPT !.pc =
                        CASE @ = "Insert_lock" -> "Insert"
                          [] @ = "Remove_lock" -> "Remove"
                          [] @ = "Update_lock" -> "Update_rewound"
                          [] @ = "Update_relock" -> "Update_insert_loop"]]
    /\ UNCHANGED dbVars

\* ---- hdb.lock() at lines 295, 315, 343 and 375
Lock(t) ==
    /\ th[t].pc \in {"Insert_lock", "Remove_lock", "Update_lock", "Update_relock"}
    /\ CanLock(dbLock)
    /\ IF th[t].pc = "Update_relock" /\ th[t].err # "ok"
       THEN \* lines 375-378: lock, see the error of Insert, return (deferred unlock)
            /\ th' = [th EXCEPT ![t] = Return(th[t].err)]
            /\ UNCHANGED dbLock
       ELSE /\ dbLock' = lock(dbLock)
            /\ th' = [th EXCEPT ![t].pc =
                        CASE @ = "Insert_lock" -> "Insert"
                          [] @ = "Remove_lock" -> "Remove"
                          [] @ = "Update_lock" -> "Update_rewound"
                          [] @ = "Update_relock" -> "Update_insert_loop"]
    /\ UNCHANGED dbVars

\* A slip in RandomHost: the critical section is entered without waiting
\* for a writer to leave.
RLockNoWait(t) ==
    /\ th[t].pc = "RandomHost_rLock"
    /\ dbLock' = rLock(dbLock)
    /\ th' = [th EXCEPT ![t].pc = "RandomHost"]
    /\ UNCHANGED dbVars

\* ---- hdb.rLock() at line 388
RLock(t) ==
    /\ th[t].pc = "RandomHost_rLock"
    /\ CanRLock(dbLock)
    /\ dbLock' = rLock(dbLock)
    /\ th' = [th EXCEPT ![t].pc = "RandomHost"]
    /\ UNCHANGED dbVars

\* ---- Insert, lines 298-310 and the deferred unlock
Insert(t) ==
    /\ th[t].pc = "Insert"
    /\ LET r == InsertEff(DB, th[t].entry)
       IN /\ SetDB(r.db)
          /\ dbLock' = unlock(dbLock)
          /\ th' = [th EXCEPT ![t] =
                      IF @.nested
                      THEN [@ EXCEPT !.pc = "Update_relock", !.entry = NoEntry, !.err = r.err]
                      ELSE Return(r.err)]

\* ---- Remove, lines 319-336 and the deferred unlock.  Called from Update
\* (lines 357-360) it returns into the loop over the block's entries, and an
\* error makes Update return through its own deferred unlock.
Remove(t) ==
    /\ th[t].pc = "Remove"
    /\ LET r == RemoveEff(DB, th[t].id)
       IN /\ SetDB(r.db)
          /\ dbLock' = unlock(dbLock)
          /\ th' = [th EXCEPT ![t] =
                      IF @.nested
                      THEN IF r.err = "ok"
                           THEN [@ EXCEPT !.pc = "Update_remove_loop", !.id = "", !.err = "ok"]
                           ELSE Return("fatal")
                      ELSE Return(r.err)]

\* ---- RandomHost, lines 390-402 and the deferred rUnlock
RandomHost(t) ==
    /\ th[t].pc = "RandomHost"
    /\ \E r \in RandomHostEff(DB) :
         th' = [th EXCEPT ![t] = Return(r.err)]
    /\ dbLock' = rUnlock(dbLock)
    /\ UNCHANGED dbVars

\* ---- Update, lines 349-354: the next rewound block
UpdateRewound(t) ==
    /\ th[t].pc = "Update_rewound"
    /\ IF th[t].rew = <<>>
       THEN /\ th' = [th EXCEPT ![t].pc = "Update_applied"]
            /\ UNCHANGED dbLock
       ELSE LET s == findHostAnnouncements(Head(th[t].rew))
            IN IF s.err # "ok"
               THEN /\ th' = [th EXCEPT ![t] = Return(s.err)]
                    /\ dbLock' = unlock(dbLock)
               ELSE /\ th' = [th EXCEPT ![t].pc = "Update_remove_loop",
                                        ![t].rew = Tail(@), ![t].ents = s.entries]
                    /\ UNCHANGED dbLock
    /\ UNCHANGED dbVars

\* ---- Update, lines 356-357: the next entry of a rewound block, handed to
\* hdb.Remove
UpdateRemoveLoop(t) ==
    /\ th[t].pc = "Update_remove_loop"
    /\ IF th[t].ents = <<>>
       THEN th' = [th EXCEPT ![t].pc = "Update_rewound"]
       ELSE th' = [th EXCEPT ![t].pc = "Remove_lock", ![t].nested = TRUE,
                             ![t].id = Head(th[t].ents).id, ![t].ents = Tail(@)]
    /\ UNCHANGED <<dbVars, dbLock>>

\* A slip in Update: a block the scanner fails on is skipped.
UpdateAppliedSkip(t) ==
    /\ th[t].pc = "Update_applied"
    /\ IF th[t].app = <<>>
       THEN /\ th' = [th EXCEPT ![t] = Return("ok")]
            /\ dbLock' = unlock(dbLock)
       ELSE /\ th' = [th EXCEPT ![t].pc = "Update_insert_loop", ![t].app = Tail(@),
                                ![t].ents = findHostAnnouncements(Head(th[t].app)).entries]
            /\ UNCHANGED dbLock
    /\ UNCHANGED dbVars

\* ---- Update, lines 365-370 and 382: the next applied block, or the end
UpdateApplied(t) ==
    /\ th[t].pc = "Update_applied"
    /\ IF th[t].app = <<>>
       THEN /\ th' = [th EXCEPT ![t] = Return("ok")]
            /\ dbLock' = unlock(dbLock)
       ELSE LET s == findHostAnnouncements(Head(th[t].app))
            IN IF s.err # "ok"
               THEN /\ th' = [th EXCEPT ![t] = Return(s.err)]
                    /\ dbLock' = unlock(dbLock)
               ELSE /\ th' = [th EXCEPT ![t].pc = "Update_insert_loop",
                                        ![t].app = Tail(@), ![t].ents = s.entries]
                    /\ UNCHANGED dbLock
    /\ UNCHANGED dbVars

\* ---- Update, lines 372-374: the next entry of an applied block: unlock,
\* then hdb.Insert
UpdateInsertLoop(t) ==
    /\ th[t].pc = "Update_insert_loop"
    /\ IF th[t].ents = <<>>
       THEN /\ th' = [th EXCEPT ![t].pc = "Update_applied"]
            /\ UNCHANGED dbLock
       ELSE /\ th' = [th EXCEPT ![t].pc = "Insert_lock", ![t].nested = TRUE,
                                ![t].entry = Head(th[t].ents), ![t].ents = Tail(@)]
            /\ dbLock' = unlock(dbLock)
    /\ UNCHANGED dbVars

\* The steps of a call under way.
Continue(t) ==
    \/ Lock(t) \/ RLock(t) \/ Insert(t) \/ Remove(t) \/ RandomHost(t)
    \/ UpdateRewound(t) \/ UpdateRemoveLoop(t) \/ UpdateApplied(t) \/ UpdateInsertLoop(t)

\* The steps of the threads of T.
NextOf(T) ==
    \/ \E t \in T : InsertCall(t)
    \/ \E t \in T : RemoveCall(t)
    \/ \E t \in T : RandomHostCall(t)
    \/ \E t \in T : UpdateCall(t)
    \/ \E t \in T : Lock(t)
    \/ \E t \in T : RLock(t)
    \/ \E t \in T : Insert(t)
    \/ \E t \in T : Remove(t)
    \/ \E t \in T : RandomHost(t)
    \/ \E t \in T : UpdateRewound(t)
    \/ \E t \in T : UpdateRemoveLoop(t)
    \/ \E t \in T : UpdateApplied(t)
    \/ \E t \in T : UpdateInsertLoop(t)

Next == NextOf(Threads)

Spec == Init /\ [][Next]_vars

\* A thread inside a call is scheduled again, and a thread waiting for the
\* lock gets it once it is free often enough (sync.RWMutex starves no
\* waiter): a step of a call that is enabled again and again is taken.
FairSpec == Spec /\ \A t \in Threads : SF_vars(Continue(t))

\* One caller alone: the calls of thread t1, one after the other.
SeqNext == NextOf({"t1"})
SeqSpec == Init /\ [][SeqNext]_vars
FairSeqSpec == SeqSpec /\ SF_vars(Continue("t1"))

\* ---- the worked example of spec.md section 8: entries A, B and C with the
\* weights 10, 30 and 60, inserted by one caller in any order and sampled.
ExA == Entry("A", 10)
ExB == Entry("B", 30)
ExC == Entry("C", 60)
ExampleEntries == [id : {"A", "B", "C"}, weight : {10, 30, 60}]

ExampleInsertCall(t) ==
    /\ th[t].pc = "idle"
    /\ Room(1)
    /\ \E e \in ExampleEntries :
         th' = [th EXCEPT ![t] = [IdleThread EXCEPT !.pc = "Insert_lock", !.entry = e]]
    /\ UNCHANGED <<dbVars, dbLock>>

ExampleNext ==
    \/ ExampleInsertCall("t1")
    \/ RandomHostCall("t1")
    \/ Lock("t1")
    \/ RLock("t1")
    \/ Insert("t1")
    \/ RandomHost("t1")

ExampleSpec == Init /\ [][ExampleNext]_vars

\* ---- one caller, Insert and Remove alone, over a fourth host and a heap
\* with one node more: the smallest size at which a removed inner node can
\* take over the entry of a leaf two levels below it.
DeepHosts == Hosts \cup {"U"}
DeepNodeIds == 1..(MaxNodes + 1)

DeepInit ==
    /\ hostTree = Nil
    /\ nodes = [k \in DeepNodeIds |-> FreeNode]
    /\ activeHosts = EmptyMap
    /\ inactiveHosts = EmptyMap
    /\ dbLock = [w |-> FALSE, r |-> 0]
    /\ th = [t \in Threads |-> IdleThread]

DeepInsertCall(t) ==
    /\ th[t].pc = "idle"
    /\ Room(1)
    /\ \E h \in DeepHosts, w \in Weights :
         th' = [th EXCEPT ![t] = [IdleThread EXCEPT !.pc = "Insert_lock", !.entry = Entry(h, w)]]
    /\ UNCHANGED <<dbVars, dbLock>>

DeepRemoveCall(t) ==
    /\ th[t].pc = "idle"
    /\ \E h \in DeepHosts :
         th' = [th EXCEPT ![t] = [IdleThread EXCEPT !.pc = "Remove_lock", !.id = h]]
    /\ UNCHANGED <<dbVars, dbLock>>

DeepNext ==
    \/ DeepInsertCall("t1")
    \/ DeepRemoveCall("t1")
    \/ Lock("t1")
    \/ Insert("t1")
    \/ Remove("t1")

DeepSpec == DeepInit /\ [][DeepNext]_vars

\* ================================================================ claims
ActiveKeys == DOMAIN activeHosts
TreeOf == TreeNodes(nodes, hostTree)
TreeEntries(d) == {d.nodes[n].entry : n \in TreeNodes(d.nodes, d.hostTree)}
TreeIds == {nodes[n].entry.id : n \in TreeOf}
RootWeight(d) == subtreeWeight(d.nodes, d.hostTree)

RECURSIVE ActiveWeightOf(_)
ActiveWeightOf(S) ==
    IF S = {} THEN 0
    ELSE LET h == CHOOSE x \in S : TRUE
         IN nodes[activeHosts[h]].entry.weight + ActiveWeightOf(S \ {h})
ActiveWeight == ActiveWeightOf(ActiveKeys)

\* Thread t took a step.
Stepped(t) == th'[t] # th[t]

\* C1 (Conservation): the subtree weight stored at the root equals the sum
\* of the weights of the entries in the active index, and the root is nil
\* when the active index is empty.
C1_Conservation ==
    /\ RootWeight(DB) = ActiveWeight
    /\ ActiveKeys = {} => hostTree = Nil

\* C2 (Invariant I1): every node of the tree has subtreeWeight = ownWeight +
\* subtreeWeight(left) + subtreeWeight(right), an absent child counting 0.
C2_WeightInvariant ==
    \A n \in TreeOf :
        nodes[n].weight = nodes[n].entry.weight
                          + subtreeWeight(nodes, nodes[n].left)
                          + subtreeWeight(nodes, nodes[n].right)

\* C3 (Invariant I2): the identifiers held by the nodes of the tree are
\* exactly the keys of the active index, and no identifier is held by two
\* nodes of the tree.
C3_TreeIdsAreActiveKeys ==
    /\ TreeIds = ActiveKeys
    /\ \A n, m \in TreeOf : nodes[n].entry.id = nodes[m].entry.id => n = m

\* C4 (Duplicate rejection): an Insert whose entry's id is a key of the
\* active index returns AlreadyExists and leaves the tree, the active index
\* and the inactive index as they were.
C4_DuplicateRejected ==
    [][\A t \in Threads :
         (th[t].pc = "Insert" /\ th[t].entry.id \in ActiveKeys /\ Stepped(t))
         => (th'[t].err = "AlreadyExists" /\ UNCHANGED dbVars)]_vars

\* C4 witness: a duplicate Insert has returned AlreadyExists on a tree that
\* holds entries.
C4_Witness ==
    \E t \in Threads :
        th[t].pc = "idle" /\ th[t].err = "AlreadyExists" /\ hostTree # Nil

\* C5 (Unknown removal): a Remove of an id that is in neither index returns
\* NotFound and leaves the tree and both indices as they were.
C5_UnknownRemoval ==
    [][\A t \in Threads :
         (th[t].pc = "Remove" /\ th[t].id \notin ActiveKeys
            /\ th[t].id \notin DOMAIN inactiveHosts /\ Stepped(t))
         => (th'[t].err = "NotFound" /\ UNCHANGED dbVars)]_vars

\* C5 witness: a Remove has returned NotFound on a tree that holds entries.
C5_Witness ==
    \E t \in Threads :
        th[t].pc = "idle" /\ th[t].err = "NotFound" /\ hostTree # Nil

\* The container after the step.
DBNext == [hostTree |-> hostTree', nodes |-> nodes',
           activeHosts |-> activeHosts', inactiveHosts |-> inactiveHosts']

InUpdate(t) ==
    \/ th[t].pc \in {"Update_rewound", "Update_remove_loop", "Update_applied",
                     "Update_insert_loop", "Update_relock"}
    \/ th[t].nested
\* Thread t is inside a critical section of the container.
InCritical(t) ==
    th[t].pc \in {"Insert", "Remove", "RandomHost", "Update_rewound",
                  "Update_remove_loop", "Update_applied", "Update_insert_loop"}

\* C7 (Reorg stack discipline): with X and Y active, Update(h, [P2], [])
\* returns ok, and then Y is not active and X still is.
C7_RewindRemovesY ==
    \A t \in Threads :
        (th[t].pc = "Update_rewound" /\ th[t].rew = <<P2>> /\ th[t].app = <<>>
           /\ {"X", "Y"} \subseteq ActiveKeys)
        ~> (th[t].pc = "idle" /\ th[t].err = "ok"
              /\ "Y" \notin ActiveKeys /\ "X" \in ActiveKeys)

\* C8 (Update is atomic): while a thread is inside Update, between its lock
\* and its return, no other thread is inside a critical section.
C8_UpdateAtomic ==
    \A t, u \in Threads : (t # u /\ InUpdate(t)) => ~InCritical(u)

\* C9 (Termination): every call of Insert, Remove, Update and RandomHost
\* returns.
C9_EveryCallReturns ==
    \A t \in Threads : (th[t].pc # "idle") ~> (th[t].pc = "idle")

\* C10 (Empty sampling): RandomHost with an empty active index returns
\* NoHostsAvailable and changes nothing.
C10_EmptySampling ==
    [][\A t \in Threads :
         (th[t].pc = "RandomHost" /\ ActiveKeys = {} /\ Stepped(t))
         => (th'[t].err = "NoHostsAvailable" /\ UNCHANGED dbVars)]_vars

\* C10 witness: RandomHost has returned NoHostsAvailable on a container that
\* was filled and emptied again and still has a root node.
C10_Witness ==
    \E t \in Threads :
        /\ th[t].pc = "idle" /\ th[t].err = "NoHostsAvailable"
        /\ ActiveKeys = {} /\ hostTree # Nil

\* The container holds A(10), B(30) and C(60), inserted in that order into
\* an empty container (with no removal the n-th node allocated is the n-th
\* entry inserted).
ExampleBuilt ==
    /\ ActiveKeys = {"A", "B", "C"}
    /\ nodes[1].entry = ExA /\ nodes[2].entry = ExB /\ nodes[3].entry = ExC
LookupAt(w) == entryAtWeight(nodes, hostTree, w)

ScanFailsRewound(t) ==
    th[t].pc = "Update_rewound" /\ th[t].rew # <<>> /\ ~Head(th[t].rew).ok
ScanFailsApplied(t) ==
    th[t].pc = "Update_applied" /\ th[t].app # <<>> /\ ~Head(th[t].app).ok

\* C12 (Scanner failure in Update): when the scanner fails on a block,
\* Update returns ScanError at once and neither the tree nor an index
\* changes for that block or a later one; what the blocks before it did
\* stays: after Update(h, [], [P1, bad]) the entry X that P1 announced is
\* in the active index and in the tree when Update returns the error.
C12_ScannerFailure ==
    [][\A t \in Threads :
         ((ScanFailsRewound(t) \/ ScanFailsApplied(t)) /\ Stepped(t))
         => /\ th'[t] = Return("ScanError")
            /\ UNCHANGED dbVars
            /\ (ScanFailsApplied(t) /\ th[t].app = <<BadBlock>>)
                 => /\ "X" \in DOMAIN activeHosts'
                    /\ activeHosts'["X"] \in TreeNodes(nodes', hostTree')
                    /\ nodes'[activeHosts'["X"]].entry = Entry("X", 1)]_vars

\* C12 witness: an Update called with the applied blocks [P1, bad] has
\* inserted the X of P1 below an older root and has reached the block the
\* scanner fails on.
C12_Witness ==
    /\ ScanFailsApplied("t1") /\ th["t1"].app = <<BadBlock>>
    /\ "X" \in ActiveKeys /\ "X" \in TreeIds
    /\ Cardinality(TreeOf) = 2

\* C13 (Update fails only with a scanner error): an Update returns ok or
\* ScanError and nothing else; an applied block that announces an id that
\* is already active does not make it fail.
C13_UpdateOnlyScanError ==
    [][\A t \in Threads :
         (InUpdate(t) /\ th'[t].pc = "idle")
         => th'[t].err \in {"ok", "ScanError"}]_vars

\* C14 (Invariant I3): no identifier is a key of both the active index and
\* the inactive index.
C14_IndicesDisjoint ==
    DOMAIN activeHosts \cap DOMAIN inactiveHosts = {}

\* C14 witness: three hosts were inserted and a Remove has taken one of
\* them out again (its node, the second allocated, is free); two are active.
C14_Witness ==
    /\ Cardinality(ActiveKeys) = 2
    /\ nodes[2] = FreeNode /\ nodes[3] # FreeNode
    /\ th["t1"].pc = "idle" /\ th["t1"].err = "ok"

\* Thread t is where the code holds the lock in exclusive mode: inside
\* Insert or Remove, or in the body of Update outside its unlock / lock
\* window (the call of Remove at line 357 included); the tree and the
\* indices are written from these places only.
InExclusive(t) ==
    \/ th[t].pc \in {"Insert", "Remove", "Update_rewound", "Update_remove_loop",
                     "Update_applied", "Update_insert_loop"}
    \/ (th[t].nested /\ th[t].pc = "Remove_lock")

\* C15 (Reader-writer exclusion): while a thread is inside the exclusive
\* section of Insert, Remove or Update, where the tree and the indices are
\* written, no other thread is inside a critical section of RandomHost,
\* Insert, Remove or Update.
C15_ReaderWriterExclusion ==
    \A t, u \in Threads :
        (t # u /\ InExclusive(t)) => (~InCritical(u) /\ ~InExclusive(u))

\* C15 witness: two RandomHost calls are inside their critical sections at
\* the same time, on a container that holds hosts.
C15_Witness ==
    /\ \A t \in Threads : th[t].pc = "RandomHost"
    /\ dbLock.r = 2
    /\ ActiveKeys # {}

\* The weights in range of the root and the ones the lookup maps to host h.
InRange == 0..(RootWeight(DB) - 1)
MapsTo(h) == {w \in InRange : LookupAt(w).err = "ok" /\ LookupAt(w).entry.id = h}

\* C16 (Weighted lookup partitions the weight range): on a non-empty
\* container the root's weight is positive, every w below it is mapped
\* without failure to an entry whose id is active, and each active entry
\* gets as many values of w as its weight; so RandomHost returns an active
\* entry.
C16_LookupPartition ==
    ActiveKeys # {} =>
        /\ hostTree # Nil /\ RootWeight(DB) > 0
        /\ \A w \in InRange :
              LookupAt(w).err = "ok" /\ LookupAt(w).entry.id \in ActiveKeys
        /\ \A n \in TreeOf :
              nodes[n].entry.id \in ActiveKeys
                 => Cardinality(MapsTo(nodes[n].entry.id)) = nodes[n].entry.weight
        /\ \A r \in RandomHostEff(DB) : r.err = "ok" /\ r.entry.id \in ActiveKeys

\* The identifiers the blocks of a list announce.
RECURSIVE AnnouncedIds(_)
AnnouncedIds(bs) ==
    IF bs = <<>> THEN {}
    ELSE {Head(bs).anns[i].id : i \in DOMAIN Head(bs).anns} \cup AnnouncedIds(Tail(bs))

C18_LocatorCorrect ==
    \A h \in ActiveKeys :
        /\ activeHosts[h] \in TreeOf
        /\ nodes[activeHosts[h]].entry.id = h

\* Insert(e) on container d leaves e alone in it: the active index is
\* {e.id}, the root total is e.weight and every w in range is mapped to e.
AloneAfterInsert(d, e) ==
    LET r == InsertEff(d, e)
    IN /\ r.err = "ok"
       /\ DOMAIN r.db.activeHosts = {e.id}
       /\ RootWeight(r.db) = e.weight
       /\ \A w \in 0..(e.weight - 1) :
             entryAtWeight(r.db.nodes, r.db.hostTree, w) = [err |-> "ok", entry |-> e]

\* C19 (Re-insertion): a Remove of an active id succeeds and takes the id
\* out of the active index, an Insert of an entry with that id made next
\* succeeds and makes the id active, and when the Remove has emptied the
\* active index an Insert(e) made next leaves e alone in the container.
C19_ReInsertion ==
    [][\A t \in Threads :
         (th[t].pc = "Remove" /\ th[t].id \in ActiveKeys /\ Stepped(t))
         => /\ th'[t].err = "ok"
            /\ th[t].id \notin DOMAIN activeHosts'
            /\ FreeIds(nodes') # {} =>
                 \A e \in [id : DeepHosts, weight : Weights] :
                    /\ e.id = th[t].id
                         => /\ InsertEff(DBNext, e).err = "ok"
                            /\ e.id \in DOMAIN InsertEff(DBNext, e).db.activeHosts
                    /\ DOMAIN activeHosts' = {} => AloneAfterInsert(DBNext, e)]_vars

\* C20 (Lock balance): the lock is held in exclusive mode exactly while
\* some thread is between a lock and the unlock that follows it, and in
\* shared mode once for each thread between rLock and rUnlock; so a thread
\* that has returned holds it in neither mode, every unlock is made by a
\* thread that holds the lock, and with every call returned the lock can be
\* acquired.
C20_LockBalance ==
    /\ dbLock.w = (\E t \in Threads : InExclusive(t))
    /\ dbLock.r = Cardinality({t \in Threads : th[t].pc = "RandomHost"})
    /\ (\A t \in Threads : th[t].pc = "idle") => CanLock(dbLock)

\* C20 witness: an Update has taken an error return (the scanner's error)
\* on a container that holds X, and the other thread has since acquired
\* the lock and is inside Insert.
C20_Witness ==
    /\ th["t1"].pc = "idle" /\ th["t1"].err = "ScanError"
    /\ "X" \in ActiveKeys
    /\ th["t2"].pc = "Insert" /\ dbLock.w

====
